---------------------------- MODULE Spec2Model ----------------------------
(***************************************************************************)
(* Model of the Google OAuth 2.0 native-app sample (Authorization Code +   *)
(* PKCE with a loopback redirect).                                         *)
(*                                                                         *)
(* The sources hold two revisions of the flow:                             *)
(*   "main"   src/src/main.rs   execute_oauth_example, a blocking accept   *)
(*   "gauth2" src/src/gauth2.rs GoogleOAuth2::begin with src/src/util.rs,  *)
(*            a non-blocking accept polled against a 120 s stopwatch       *)
(* Both are modelled; the variable revision says which one a run executes. *)
(*                                                                         *)
(* Spec and FairSpec are one run of the flow with its peers, up to the end *)
(* of the process.  CodecSpec takes texts through urlencode and urldecode, *)
(* RandomSpec takes byte buffers through generate_random_string, and       *)
(* TwoRunSpec lets two flows reserve and bind the loopback port at the     *)
(* same time.                                                              *)
(*                                                                         *)
(* A text is a sequence of one-character strings, <<"G","E","T">>.  Only   *)
(* ASCII request text is drawn as input.                                   *)
(***************************************************************************)
EXTENDS Integers, Sequences, FiniteSets, TLC

(***************************************************************************)
(* Characters                                                              *)
(***************************************************************************)

\* The printable ASCII characters, code 32 (space) to code 126 (~), in order.
\* The grave accent (code 96), which the lexer of the tools rejects in a string,
\* is written "<96>".
AsciiTable ==
    << " ", "!", "\"", "#", "$", "%", "&", "'", "(", ")", "*", "+", ",", "-", ".", "/",
       "0", "1", "2", "3", "4", "5", "6", "7", "8", "9", ":", ";", "<", "=", ">", "?",
       "@", "A", "B", "C", "D", "E", "F", "G", "H", "I", "J", "K", "L", "M", "N", "O",
       "P", "Q", "R", "S", "T", "U", "V", "W", "X", "Y", "Z", "[", "\\", "]", "^", "_",
       "<96>", "a", "b", "c", "d", "e", "f", "g", "h", "i", "j", "k", "l", "m", "n", "o",
       "p", "q", "r", "s", "t", "u", "v", "w", "x", "y", "z", "{", "|", "}", "~" >>

\* (n as char) for a byte n: the character with code point n.  A character
\* outside the printable range is written "<n>".
Chr(n) ==
    IF n >= 32 /\ n <= 126 THEN AsciiTable[n - 31] ELSE "<" \o ToString(n) \o ">"

\* (c as u8) for a printable ASCII character.
Ord(c) ==
    (CHOOSE i \in 1..Len(AsciiTable) : AsciiTable[i] = c) + 31

HexDigits ==
    << "0", "1", "2", "3", "4", "5", "6", "7", "8", "9",
       "A", "B", "C", "D", "E", "F" >>

LowerHexDigits ==
    << "0", "1", "2", "3", "4", "5", "6", "7", "8", "9",
       "a", "b", "c", "d", "e", "f" >>

IsHexDigit(c) ==
    \E i \in 1..16 : HexDigits[i] = c \/ LowerHexDigits[i] = c

HexDigitValue(c) ==
    (CHOOSE i \in 1..16 : HexDigits[i] = c \/ LowerHexDigits[i] = c) - 1

\* u8::from_str_radix(hex, 16) on a two-character text: [ok, value].
\* Two hex digits parse; so does a leading "+" followed by one hex digit.
FromStrRadix16(hex) ==
    IF IsHexDigit(hex[1]) /\ IsHexDigit(hex[2])
    THEN [ok |-> TRUE, value |-> 16 * HexDigitValue(hex[1]) + HexDigitValue(hex[2])]
    ELSE IF hex[1] = "+" /\ IsHexDigit(hex[2])
    THEN [ok |-> TRUE, value |-> HexDigitValue(hex[2])]
    ELSE [ok |-> FALSE, value |-> 0]

(***************************************************************************)
(* Texts                                                                   *)
(***************************************************************************)

\* str::starts_with
StartsWith(s, prefix) ==
    /\ Len(s) >= Len(prefix)
    /\ SubSeq(s, 1, Len(prefix)) = prefix

\* str::contains for a one-character pattern.
Contains(s, c) ==
    \E i \in 1..Len(s) : s[i] = c

\* Index of the first c in s, 0 when there is none.
IndexOf(s, c) ==
    IF Contains(s, c) THEN CHOOSE i \in 1..Len(s) : s[i] = c /\ \A j \in 1..(i - 1) : s[j] # c
    ELSE 0

\* str::split for a one-character separator: the pieces in order.  A text
\* without the separator, the empty text included, is one piece.
RECURSIVE Split(_, _)
Split(s, c) ==
    IF ~Contains(s, c) THEN << s >>
    ELSE LET i == IndexOf(s, c)
         IN << SubSeq(s, 1, i - 1) >> \o Split(SubSeq(s, i + 1, Len(s)), c)

(***************************************************************************)
(* Callback parsing (util.rs; main.rs holds the same code)                 *)
(***************************************************************************)

\* urldecode from position i (1-based) with the text decoded so far:
\* [panic, text].  "%" takes the next two characters as a hex byte; the slice
\* s[i+1..i+3] panics when fewer than two characters follow, the unwrap of
\* from_str_radix panics when they are no hex byte.
RECURSIVE UrlDecodeFrom(_, _, _)
UrlDecodeFrom(s, i, result) ==
    IF i > Len(s) THEN [panic |-> FALSE, text |-> result]
    ELSE IF s[i] = "%"
    THEN IF i + 2 > Len(s) THEN [panic |-> TRUE, text |-> << >>]
         ELSE LET n == FromStrRadix16(SubSeq(s, i + 1, i + 2))
              IN IF ~n.ok THEN [panic |-> TRUE, text |-> << >>]
                 ELSE UrlDecodeFrom(s, i + 3, Append(result, Chr(n.value)))
    ELSE UrlDecodeFrom(s, i + 1, Append(result, s[i]))

urldecode(s) ==
    UrlDecodeFrom(s, 1, << >>)

\* The empty HashMap<String, String>.
EmptyMap ==
    [k \in {} |-> << >>]

\* HashMap::insert
MapInsert(m, key, value) ==
    [k \in DOMAIN m \cup {key} |-> IF k = key THEN value ELSE m[k]]

\* The loop of split_querystring over the pairs from index i on: [panic, map].
\* The key is the first piece of pair.split("="), the value the second; a pair
\* without "=" has no second piece and the unwrap panics.
RECURSIVE InsertPairs(_, _, _)
InsertPairs(pairs, i, query) ==
    IF i > Len(pairs) THEN [panic |-> FALSE, map |-> query]
    ELSE LET iter == Split(pairs[i], "=")
         IN IF Len(iter) < 2 THEN [panic |-> TRUE, map |-> EmptyMap]
            ELSE LET value == urldecode(iter[2])
                 IN IF value.panic THEN [panic |-> TRUE, map |-> EmptyMap]
                    ELSE InsertPairs(pairs, i + 1, MapInsert(query, iter[1], value.text))

split_querystring(url) ==
    IF ~Contains(url, "?") THEN [panic |-> FALSE, map |-> EmptyMap]
    ELSE LET querystring == SubSeq(url, IndexOf(url, "?") + 1, Len(url))
         IN InsertPairs(Split(querystring, "&"), 1, EmptyMap)

GetSlash ==
    << "G", "E", "T", " ", "/" >>

\* get_request_path (util.rs) / retrieve_url (main.rs): the second
\* space-separated item of a line that starts with "GET /", else "".
get_request_path(unknown) ==
    IF ~StartsWith(unknown, GetSlash) THEN << >>
    ELSE Split(unknown, " ")[2]

\* diagnose_http_request from line i on: the first line with a non-empty
\* request path decides.
RECURSIVE DiagnoseFrom(_, _)
DiagnoseFrom(http_request, i) ==
    IF i > Len(http_request) THEN [panic |-> FALSE, map |-> EmptyMap]
    ELSE LET url == get_request_path(http_request[i])
         IN IF url = << >> THEN DiagnoseFrom(http_request, i + 1)
            ELSE split_querystring(url)

diagnose_http_request(http_request) ==
    DiagnoseFrom(http_request, 1)

\* MapHelper::get_string: the value, "" when the key is absent.
get_string(m, key) ==
    IF key \notin DOMAIN m THEN << >> ELSE m[key]

(***************************************************************************)
(* Random texts (util.rs; main.rs holds the same code)                     *)
(***************************************************************************)

Base64Alphabet ==
    << "A", "B", "C", "D", "E", "F", "G", "H", "I", "J", "K", "L", "M", "N", "O", "P",
       "Q", "R", "S", "T", "U", "V", "W", "X", "Y", "Z", "a", "b", "c", "d", "e", "f",
       "g", "h", "i", "j", "k", "l", "m", "n", "o", "p", "q", "r", "s", "t", "u", "v",
       "w", "x", "y", "z", "0", "1", "2", "3", "4", "5", "6", "7", "8", "9", "+", "/" >>

\* base64 STANDARD: three bytes give four characters, a last group of one or
\* two bytes is padded with "=".
RECURSIVE encode_base64(_)
encode_base64(buffer) ==
    IF Len(buffer) = 0 THEN << >>
    ELSE IF Len(buffer) = 1
    THEN << Base64Alphabet[(buffer[1] \div 4) + 1],
            Base64Alphabet[((buffer[1] % 4) * 16) + 1], "=", "=" >>
    ELSE IF Len(buffer) = 2
    THEN << Base64Alphabet[(buffer[1] \div 4) + 1],
            Base64Alphabet[((buffer[1] % 4) * 16 + (buffer[2] \div 16)) + 1],
            Base64Alphabet[((buffer[2] % 16) * 4) + 1], "=" >>
    ELSE << Base64Alphabet[(buffer[1] \div 4) + 1],
            Base64Alphabet[((buffer[1] % 4) * 16 + (buffer[2] \div 16)) + 1],
            Base64Alphabet[((buffer[2] % 16) * 4 + (buffer[3] \div 64)) + 1],
            Base64Alphabet[(buffer[3] % 64) + 1] >>
         \o encode_base64(SubSeq(buffer, 4, Len(buffer)))

\* fix_base64_string: "=" removed, "+" to "-", "/" to "_".
RECURSIVE fix_base64_string(_)
fix_base64_string(s) ==
    IF Len(s) = 0 THEN << >>
    ELSE (IF Head(s) = "=" THEN << >>
          ELSE IF Head(s) = "+" THEN << "-" >>
          ELSE IF Head(s) = "/" THEN << "_" >>
          ELSE << Head(s) >>) \o fix_base64_string(Tail(s))

\* generate_random_string that returns the base64 text as it is.
generate_random_string_unfixed(buffer) ==
    encode_base64(buffer)

\* generate_random_string on the buffer generate_random_u8_array drew.
generate_random_string(buffer) ==
    fix_base64_string(encode_base64(buffer))

(***************************************************************************)
(* Bounds and inputs                                                       *)
(***************************************************************************)

\* Length of the texts taken through urlencode and urldecode.
CodecMaxLen == 2

\* Largest byte count for which generate_random_string is taken on its own.
RandMaxLen == 3

\* First port probed by select_random_tcp_port.
PortFirst == 15000

\* Number of ports of the probed range that are modelled (14000 in the code).
MaxPorts == 2

\* Bytes drawn for one random text (32 in the code).
RandSize == 1

\* Peers that may connect to the loopback port while it is bound.
MaxPeers == 2

\* Pairs in a generated callback query.
MaxPairs == 2

\* Seconds of the wait bound of recv_response in gauth2.rs.
WaitBoundSecs == 120

\* Seconds the clock is followed past the wait bound.
MaxOverrun == 1

Ports ==
    PortFirst..(PortFirst + MaxPorts - 1)

\* Values a random byte takes in the model: 251 brings "+" and "/" into the
\* base64 text.
ByteSet ==
    {0, 251}

\* generate_random_u8_array(length): the buffers it can draw.
generate_random_u8_array(length) ==
    [1..length -> ByteSet]

kCode ==
    << "c", "o", "d", "e" >>

kState ==
    << "s", "t", "a", "t", "e" >>

kError ==
    << "e", "r", "r", "o", "r" >>

(***************************************************************************)
(* Percent-encoding and the PKCE challenge (util.rs; main.rs holds the     *)
(* same code)                                                              *)
(***************************************************************************)

\* char::is_ascii_alphanumeric
IsAsciiAlphanumeric(c) ==
    LET n == Ord(c)
    IN \/ n >= 48 /\ n <= 57
       \/ n >= 65 /\ n <= 90
       \/ n >= 97 /\ n <= 122

\* EncodeChar with the space written as "+", as form encoding does.
EncodeCharPlusForSpace(c) ==
    IF IsAsciiAlphanumeric(c) THEN << c >>
    ELSE IF c = " " THEN << "+" >>
    ELSE << "%", HexDigits[(Ord(c) \div 16) + 1], HexDigits[(Ord(c) % 16) + 1] >>

\* One step of the loop of urlencode: an ASCII letter or digit is pushed as
\* it is, any other character as format!("%{:02X}", c as u8).
EncodeChar(c) ==
    IF IsAsciiAlphanumeric(c) THEN << c >>
    ELSE LET n == Ord(c)
         IN << "%", HexDigits[(n \div 16) + 1], HexDigits[(n % 16) + 1] >>

RECURSIVE urlencode(_)
urlencode(s) ==
    IF Len(s) = 0 THEN << >>
    ELSE EncodeChar(Head(s)) \o urlencode(Tail(s))

\* create_sha256b_hash: the SHA-256 digest of the text, 32 bytes.  The digests
\* are tabulated for the verifiers generate_random_string yields on buffers of
\* one or two bytes of ByteSet.
create_sha256b_hash(s) ==
    CASE s = << "A", "A" >> ->
         << 88, 187, 17, 156, 53, 81, 58, 69, 29, 36, 220, 32, 239, 14, 144, 49,
            236, 133, 179, 91, 252, 145, 157, 38, 62, 126, 93, 152, 104, 144, 156, 181 >>
      [] s = << "-", "w" >> ->
         << 101, 218, 78, 25, 44, 146, 17, 41, 6, 71, 152, 131, 240, 180, 116, 12,
            100, 52, 54, 126, 61, 74, 29, 167, 122, 33, 222, 206, 119, 171, 52, 241 >>
      [] s = << "A", "A", "A" >> ->
         << 203, 26, 210, 17, 157, 143, 175, 182, 149, 102, 81, 14, 231, 18, 102, 31,
            159, 20, 184, 51, 133, 0, 110, 249, 42, 236, 71, 245, 35, 163, 131, 88 >>
      [] s = << "A", "P", "s" >> ->
         << 110, 166, 178, 98, 86, 46, 154, 163, 241, 128, 238, 199, 69, 159, 209, 182,
            207, 50, 221, 136, 164, 10, 211, 103, 45, 109, 189, 248, 235, 141, 64, 131 >>
      [] s = << "-", "w", "A" >> ->
         << 228, 52, 250, 64, 61, 12, 189, 239, 118, 238, 68, 102, 117, 144, 178, 232,
            244, 72, 170, 175, 165, 123, 28, 88, 186, 110, 121, 84, 213, 106, 94, 137 >>
      [] s = << "-", "_", "s" >> ->
         << 237, 18, 41, 222, 108, 101, 101, 159, 190, 24, 68, 62, 179, 121, 201, 205,
            91, 204, 14, 38, 242, 48, 27, 59, 125, 192, 79, 67, 71, 138, 210, 129 >>

\* generate_code_challenge: code_verifier to code_challenge.
generate_code_challenge(s) ==
    fix_base64_string(encode_base64(create_sha256b_hash(s)))

\* The decimal digits of a natural number, as format!("{}", n) writes them.
RECURSIVE Decimal(_)
Decimal(n) ==
    IF n < 10 THEN << Chr(48 + n) >>
    ELSE Decimal(n \div 10) \o << Chr(48 + (n % 10)) >>

\* format!("http://localhost:{}", port)
RedirectUri(p) ==
    << "h", "t", "t", "p", ":", "/", "/", "l", "o", "c", "a", "l", "h", "o", "s", "t",
       ":" >> \o Decimal(p)

\* The authorization endpoint: the literal of begin_google_oauth in main.rs,
\* which is also what the discovery document read by gauth2.rs names.
AuthorizationEndpoint ==
    << "h", "t", "t", "p", "s", ":", "/", "/", "a", "c", "c", "o", "u", "n", "t", "s",
       ".", "g", "o", "o", "g", "l", "e", ".", "c", "o", "m", "/", "o", "/", "o", "a",
       "u", "t", "h", "2", "/", "v", "2", "/", "a", "u", "t", "h" >>

Scopes ==
    << "o", "p", "e", "n", "i", "d", " ", "p", "r", "o", "f", "i", "l", "e", " ", "e",
       "m", "a", "i", "l" >>

kResponseType ==
    << "r", "e", "s", "p", "o", "n", "s", "e", "_", "t", "y", "p", "e" >>

kScope ==
    << "s", "c", "o", "p", "e" >>

kRedirectUri ==
    << "r", "e", "d", "i", "r", "e", "c", "t", "_", "u", "r", "i" >>

kClientId ==
    << "c", "l", "i", "e", "n", "t", "_", "i", "d" >>

kCodeChallenge ==
    << "c", "o", "d", "e", "_", "c", "h", "a", "l", "l", "e", "n", "g", "e" >>

kCodeChallengeMethod ==
    << "c", "o", "d", "e", "_", "c", "h", "a", "l", "l", "e", "n", "g", "e", "_", "m",
       "e", "t", "h", "o", "d" >>

\* The URL open_browser_to_begin (gauth2.rs) and begin_google_oauth (main.rs)
\* format: scope, redirect_uri and state go through urlencode, client_id and
\* code_challenge are written as they are.
AuthorizationUrl(id, redirect_uri, st, code_challenge) ==
    AuthorizationEndpoint \o << "?" >>
        \o kResponseType \o << "=", "c", "o", "d", "e" >>
        \o << "&" >> \o kScope \o << "=" >> \o urlencode(Scopes)
        \o << "&" >> \o kRedirectUri \o << "=" >> \o urlencode(redirect_uri)
        \o << "&" >> \o kClientId \o << "=" >> \o id
        \o << "&" >> \o kState \o << "=" >> \o urlencode(st)
        \o << "&" >> \o kCodeChallenge \o << "=" >> \o code_challenge
        \o << "&" >> \o kCodeChallengeMethod \o << "=", "S", "2", "5", "6" >>

(***************************************************************************)
(* Callback requests a peer sends                                          *)
(***************************************************************************)

HttpVersion ==
    << " ", "H", "T", "T", "P", "/", "1", ".", "1" >>

HostLine ==
    << "H", "o", "s", "t", ":", " ", "x" >>

Pair(k, v) ==
    k \o << "=" >> \o v

RECURSIVE Join(_, _)
Join(pieces, sep) ==
    IF Len(pieces) = 0 THEN << >>
    ELSE IF Len(pieces) = 1 THEN pieces[1]
    ELSE pieces[1] \o << sep >> \o Join(Tail(pieces), sep)

\* Query pairs a peer combines: a code, the state of this run, another state,
\* a provider error, and a pair without "=".
PairSet(st) ==
    { Pair(kCode, << "A", "B" >>), Pair(kState, st), Pair(kState, << "z", "z" >>),
      Pair(kError, << "n", "o" >>), << "x" >> }

\* Further queries: an empty code, an incomplete and a non-hexadecimal escape,
\* an escaped value, a value holding "=", an empty error.
ExtraQueries(st) ==
    { Join(<< Pair(kCode, << >>), Pair(kState, st) >>, "&"),
      Join(<< Pair(kCode, << "%", "4" >>), Pair(kState, st) >>, "&"),
      Join(<< Pair(kCode, << "%", "z", "z" >>), Pair(kState, st) >>, "&"),
      Join(<< Pair(kCode, << "%", "4", "1" >>), Pair(kState, st) >>, "&"),
      Join(<< Pair(kCode, << "a", "=", "b" >>), Pair(kState, st) >>, "&"),
      Pair(kError, << >>) }

Queries(st) ==
    { Join(ps, "&") : ps \in UNION { [1..n -> PairSet(st)] : n \in 0..MaxPairs } }
        \cup ExtraQueries(st)

GetLine(q) ==
    GetSlash \o << "?" >> \o q \o HttpVersion

\* The header blocks a peer sends: the lines before the first empty line.
Requests(st) ==
    { << GetLine(q) >> : q \in Queries(st) }
        \cup { << >>,
               << GetSlash \o HttpVersion >>,
               << << "P", "O", "S", "T", " ", "/", "?" >> \o Pair(kCode, << "A", "B" >>) \o HttpVersion >>,
               << GetLine(Join(<< Pair(kCode, << "A", "B" >>), Pair(kState, st) >>, "&")), HostLine >>,
               << HostLine, GetLine(Join(<< Pair(kCode, << "A", "B" >>), Pair(kState, st) >>, "&")) >> }

\* What reading the accepted stream yields: header lines, or a read error
\* (an I/O error, bytes that are no UTF-8).
PeerInputs(st) ==
    { [kind |-> "lines", lines |-> r] : r \in Requests(st) }
        \cup { [kind |-> "bad", lines |-> << >>] }

\* A client_secret*.json file: it parses to credentials or it does not.
ValidFile ==
    [parses |-> TRUE, client_id |-> << "i", "-", "d" >>, client_secret |-> << "s" >>]

EmptyIdFile ==
    [parses |-> TRUE, client_id |-> << >>, client_secret |-> << "s" >>]

EmptySecretFile ==
    [parses |-> TRUE, client_id |-> << "i", "-", "d" >>, client_secret |-> << >>]

BrokenFile ==
    [parses |-> FALSE, client_id |-> << >>, client_secret |-> << >>]

\* What enumerate_client_secret finds under the current directory.
FileLists ==
    { << >>, << ValidFile >>, << EmptyIdFile >>, << EmptySecretFile >>, << BrokenFile >>,
      << EmptyIdFile, ValidFile >> }

NoRequest ==
    [kind |-> "none", lines |-> << >>]

\* What the token endpoint answers to the POST.
TokenResponses ==
    { [kind |-> "transport", token |-> ""],
      [kind |-> "undecodable", token |-> ""],
      [kind |-> "token", token |-> "tkA"] }

(***************************************************************************)
(* State                                                                   *)
(***************************************************************************)

\* codec while no text is under conversion.
NoCodec ==
    [stage |-> "off", input |-> << >>, encoded |-> << >>, decoded |-> << >>]

\* random while no text is generated on its own.
NoRandom ==
    [stage |-> "off", size |-> 0, buffer |-> << >>, text |-> << >>]

\* process while main has not ended it.
NotExited ==
    [exited |-> FALSE, status |-> 0, reported |-> FALSE]

\* runs while no second flow shares the ports.
NoRuns ==
    << >>

VARIABLES
    revision,       \* "main" (main.rs) or "gauth2" (gauth2.rs + util.rs)
    pc,             \* position of the flow
    files,          \* the client_secret*.json files configure finds, in order
    client_id,      \* credentials the flow runs with, "" before configure
    client_secret,
    probe,          \* per port: whether it could be bound when it was probed
    taken,          \* another process has bound the reserved port
    browser_called, \* open_browser was called with the authorization URL
    codec,          \* the text under urlencode and urldecode (CodecSpec)
    random,         \* the buffer under generate_random_string (RandomSpec)
    process,        \* how main ended the process, if it has
    runs,           \* two flows that share the loopback ports (TwoRunSpec)
    port,           \* port returned by select_random_tcp_port, 0 before
    state,          \* generated CSRF state
    code_verifier,  \* generated PKCE verifier
    bound,          \* ports on which the flow holds a listener
    connected,      \* peers that have connected to the listener in this run
    backlog,        \* connections completed on the listener, not yet accepted
    fault,          \* the listener holds an error other than would-block
    elapsed,        \* whole seconds since recv_response began to wait
    accepted,       \* connections accept() has returned in this run
    accept_failed,  \* accept() has returned an error other than would-block
    conn,           \* accepted stream: "none", "open" or "closed"
    nb_stream,      \* the accepted stream is non-blocking
    inbox,          \* "none", or "ready" once the peer's bytes have arrived
    responded,      \* the 200 response was written to the accepted stream
    request,        \* what accept_peer read from the stream
    recv_result,    \* what recv_response returned to the flow
    posts,          \* token-exchange requests sent
    token_data,     \* GoogleOAuth2::token_data.access_token
    outcome         \* how the run ended

vars ==
    << revision, pc, files, client_id, client_secret, probe, taken, browser_called, codec,
       random, process, runs, port, state, code_verifier, bound, connected, backlog, fault,
       elapsed,
       accepted, accept_failed, conn, nb_stream, inbox, responded, request,
       recv_result, posts, token_data, outcome >>

Running ==
    [kind |-> "running", tag |-> "", text |-> << >>]

Succeeded ==
    [kind |-> "ok", tag |-> "", text |-> << >>]

\* Err(...) returned through the `?` chain; text is the provider's reason for
\* tag "denied".
Failed(tag, text) ==
    [kind |-> "error", tag |-> tag, text |-> text]

\* A panic (an unwrap of None or Err, a slice out of range) ends the process.
Panicked(tag) ==
    [kind |-> "panic", tag |-> tag, text |-> << >>]

NoResult ==
    [kind |-> "none", code |-> << >>, state |-> << >>]

\* The flow before its first step, in revision rev with the files found.
Idle(rev, found) ==
    /\ revision = rev
    /\ pc = "configure"
    /\ files = found
    /\ client_id = << >>
    /\ client_secret = << >>
    /\ probe = [p \in Ports |-> FALSE]
    /\ taken = FALSE
    /\ browser_called = FALSE
    /\ process = NotExited
    /\ port = 0
    /\ state = << >>
    /\ code_verifier = << >>
    /\ bound = {}
    /\ connected = 0
    /\ backlog = 0
    /\ fault = FALSE
    /\ elapsed = 0
    /\ accepted = 0
    /\ accept_failed = FALSE
    /\ conn = "none"
    /\ nb_stream = FALSE
    /\ inbox = "none"
    /\ responded = FALSE
    /\ request = NoRequest
    /\ recv_result = NoResult
    /\ posts = << >>
    /\ token_data = ""
    /\ outcome = Running

Init ==
    /\ \E rev \in {"main", "gauth2"}, found \in FileLists : Idle(rev, found)
    /\ codec = NoCodec
    /\ random = NoRandom
    /\ runs = NoRuns

(***************************************************************************)
(* Configuration (configuration.rs, and configure of main.rs)              *)
(***************************************************************************)

\* IsEmpty that takes every text as non-empty.
IsEmptyNever(s) ==
    FALSE

\* String::is_empty, as parse_client_secret of configuration.rs tests the two
\* credentials; configure of main.rs tests len() > 0.
IsEmpty(s) ==
    s = << >>

\* parse_client_secret: [ok, client_id, client_secret].  configuration.rs
\* rejects an empty client_id or client_secret; main.rs only decodes.
parse_client_secret(rev, file) ==
    IF ~file.parses THEN [ok |-> FALSE, client_id |-> << >>, client_secret |-> << >>]
    ELSE IF rev = "gauth2" /\ (IsEmpty(file.client_id) \/ IsEmpty(file.client_secret))
    THEN [ok |-> FALSE, client_id |-> << >>, client_secret |-> << >>]
    ELSE [ok |-> TRUE, client_id |-> file.client_id, client_secret |-> file.client_secret]

\* The loop of configure over the files from index i on: the first file that
\* parses is taken; main.rs also skips a file with an empty credential.
RECURSIVE ConfigureFrom(_, _, _)
ConfigureFrom(rev, found, i) ==
    IF i > Len(found) THEN [ok |-> FALSE, client_id |-> << >>, client_secret |-> << >>]
    ELSE LET result == parse_client_secret(rev, found[i])
         IN IF ~result.ok THEN ConfigureFrom(rev, found, i + 1)
            ELSE IF rev = "main" /\ (IsEmpty(result.client_id) \/ IsEmpty(result.client_secret))
            THEN ConfigureFrom(rev, found, i + 1)
            ELSE result

configure(rev, found) ==
    ConfigureFrom(rev, found, 1)

\* Where the caller goes with the credentials of configure: main.rs reserves
\* the port; the caller of gauth2.rs constructs GoogleOAuth2 from them.
AfterConfigure(rev) ==
    IF rev = "gauth2" THEN "new" ELSE "select_port"

\* The caller of gauth2.rs calls begin on the instance it constructed.
AfterNew ==
    "select_port"

\* let client_secret = configure()?
Configure ==
    /\ pc = "configure"
    /\ LET r == configure(revision, files)
       IN IF r.ok
          THEN /\ client_id' = r.client_id
               /\ client_secret' = r.client_secret
               /\ pc' = AfterConfigure(revision)
               /\ outcome' = outcome
          ELSE /\ UNCHANGED << client_id, client_secret >>
               /\ pc' = "done"
               /\ outcome' = Failed("config", << >>)
    /\ UNCHANGED << files, probe, taken, browser_called, codec, random,
                    process, runs >>
    /\ UNCHANGED << connected, revision, port, state, code_verifier, bound, backlog, fault,
                    elapsed, accepted, accept_failed, conn, nb_stream, inbox, responded,
                    request, recv_result, posts, token_data >>

\* GoogleOAuth2::new: the discovery document is fetched and decoded, or the
\* construction fails; the token data start empty.
New ==
    /\ revision = "gauth2"
    /\ pc = "new"
    /\ \E discovered \in BOOLEAN :
         IF discovered
         THEN /\ pc' = AfterNew
              /\ outcome' = outcome
         ELSE /\ pc' = "done"
              /\ outcome' = Failed("discovery", << >>)
    /\ token_data' = ""
    /\ UNCHANGED << files, client_id, client_secret, probe, taken, browser_called, codec, random,
                    process, runs >>
    /\ UNCHANGED << connected, revision, port, state, code_verifier, bound, backlog, fault,
                    elapsed, accepted, accept_failed, conn, nb_stream, inbox, responded,
                    request, recv_result, posts >>

(***************************************************************************)
(* Port reservation                                                        *)
(***************************************************************************)

\* try_bind_tcp_port: binds the port and reports whether the bind succeeded;
\* the listener is dropped when the function returns.  bindable is the answer
\* of the operating system; the result is [ok, held]: held are the ports still
\* bound on return.
try_bind_tcp_port(p, bindable) ==
    [ok |-> bindable, held |-> {}]

\* select_random_tcp_port from port p on; answers[q] is whether q can be
\* bound at the time it is probed.  [ok, port, held].
RECURSIVE SelectFrom(_, _, _)
SelectFrom(p, answers, held) ==
    IF p \notin Ports THEN [ok |-> FALSE, port |-> 0, held |-> held]
    ELSE LET r == try_bind_tcp_port(p, answers[p])
         IN IF r.ok THEN [ok |-> TRUE, port |-> p, held |-> held \cup r.held]
            ELSE SelectFrom(p + 1, answers, held \cup r.held)

\* select_random_tcp_port with the loop begun one port too far.
select_random_tcp_port_from_second(answers) ==
    SelectFrom(PortFirst + 1, answers, {})

select_random_tcp_port(answers) ==
    SelectFrom(PortFirst, answers, {})

SelectPort ==
    /\ pc = "select_port"
    /\ \E answers \in [Ports -> BOOLEAN] :
         LET r == select_random_tcp_port(answers)
         IN /\ probe' = answers
            /\ bound' = r.held
            /\ IF r.ok
               THEN /\ port' = r.port
                    /\ pc' = "generate"
                    /\ outcome' = outcome
               ELSE /\ port' = port
                    /\ pc' = "done"
                    /\ outcome' = Failed("no_port", << >>)
    /\ UNCHANGED << files, client_id, client_secret, taken, browser_called, codec, random,
                    process, runs >>
    /\ UNCHANGED << connected, revision, state, code_verifier, backlog, fault, elapsed, accepted,
                    accept_failed, conn, nb_stream, inbox, responded, request,
                    recv_result, posts, token_data >>

\* state and code_verifier: two draws of generate_random_string.
Generate ==
    /\ pc = "generate"
    /\ \E b1 \in generate_random_u8_array(RandSize), b2 \in generate_random_u8_array(RandSize) :
         /\ state' = generate_random_string(b1)
         /\ code_verifier' = generate_random_string(b2)
    /\ pc' = "open_browser"
    /\ UNCHANGED << files, client_id, client_secret, probe, taken, browser_called, codec, random,
                    process, runs >>
    /\ UNCHANGED << connected, revision, port, bound, backlog, fault, elapsed, accepted,
                    accept_failed, conn, nb_stream, inbox, responded, request,
                    recv_result, posts, token_data, outcome >>

\* The URL handed to the browser, "" before: open_browser_to_begin and
\* begin_google_oauth format it from the credentials, the port and the texts
\* drawn for this run, none of which changes afterwards.
browser_url ==
    IF browser_called
    THEN AuthorizationUrl(client_id, RedirectUri(port), state,
                          generate_code_challenge(code_verifier))
    ELSE << >>

\* AfterBrowserError with the error of open::that dropped: the flow goes on.
AfterBrowserErrorIgnored ==
    "bind"

\* Where the flow goes when the browser could not be opened: the `?` of
\* open_browser, of open_browser_to_begin and of the caller return the error.
AfterBrowserError ==
    "done"

\* open_browser_to_begin / begin_google_oauth: open::that(url)? fails or not.
OpenBrowser ==
    /\ pc = "open_browser"
    /\ browser_called' = TRUE
    /\ \E opened \in BOOLEAN :
         IF opened
         THEN /\ pc' = "bind"
              /\ outcome' = outcome
         ELSE /\ pc' = AfterBrowserError
              /\ outcome' = Failed("browser", << >>)
    /\ UNCHANGED << files, client_id, client_secret, probe, taken, codec, random,
                    process, runs >>
    /\ UNCHANGED << connected, revision, port, state, code_verifier, bound, backlog, fault, elapsed,
                    accepted, accept_failed, conn, nb_stream, inbox, responded, request,
                    recv_result, posts, token_data >>

(***************************************************************************)
(* recv_response: the loopback callback receiver                           *)
(***************************************************************************)

\* BindReturns with the error of bind dropped instead of returned.
BindReturnsIgnored(failed) ==
    FALSE

\* Whether TcpListener::bind(&address)? returns from recv_response: the `?`
\* returns the error of a failed bind.
BindReturns(failed) ==
    failed

\* TcpListener::bind(&address)? at the head of recv_response: the bind fails
\* when another process holds the port, or when the flow itself still does.
Bind ==
    /\ pc = "bind"
    /\ LET failed == taken \/ port \in bound
       IN IF BindReturns(failed)
          THEN /\ pc' = "done"
               /\ outcome' = Failed("bind", << >>)
               /\ bound' = bound
          ELSE /\ pc' = "wait"
               /\ outcome' = outcome
               /\ bound' = IF failed THEN bound ELSE bound \cup {port}
    /\ UNCHANGED << files, client_id, client_secret, probe, taken, browser_called, codec, random,
                    process, runs >>
    /\ UNCHANGED << connected, revision, port, state, code_verifier, backlog, fault, elapsed,
                    accepted, accept_failed, conn, nb_stream, inbox, responded, request,
                    recv_result, posts, token_data >>

\* The extraction at the end of recv_response: error first, then code and
\* state.  gauth2.rs takes a non-empty error value as the error; main.rs takes
\* the presence of the key.
Extract(rev, query) ==
    IF rev = "gauth2"
    THEN IF get_string(query, kError) # << >>
         THEN [kind |-> "err", reason |-> get_string(query, kError), code |-> << >>, state |-> << >>]
         ELSE [kind |-> "ok", reason |-> << >>,
               code |-> get_string(query, kCode), state |-> get_string(query, kState)]
    ELSE IF kError \in DOMAIN query
         THEN [kind |-> "err", reason |-> query[kError], code |-> << >>, state |-> << >>]
         ELSE [kind |-> "ok", reason |-> << >>,
               code |-> IF kCode \in DOMAIN query THEN query[kCode] ELSE << >>,
               state |-> IF kState \in DOMAIN query THEN query[kState] ELSE << >>]

\* accept_peer on what the stream yields: [kind, tag, map, responded].
\* The lines are read with unwrap, then parsed, then the response is written
\* (written: whether stream.write succeeds); gauth2.rs returns the write error,
\* main.rs unwraps it.
accept_peer(rev, input, written) ==
    IF input.kind = "bad"
    THEN [kind |-> "panic", tag |-> "read", map |-> EmptyMap, responded |-> FALSE]
    ELSE LET q == diagnose_http_request(input.lines)
         IN IF q.panic
            THEN [kind |-> "panic", tag |-> "parse", map |-> EmptyMap, responded |-> FALSE]
            ELSE IF ~written
            THEN IF rev = "gauth2"
                 THEN [kind |-> "err", tag |-> "io", map |-> EmptyMap, responded |-> FALSE]
                 ELSE [kind |-> "panic", tag |-> "write", map |-> EmptyMap, responded |-> FALSE]
            ELSE [kind |-> "ok", tag |-> "", map |-> q.map, responded |-> TRUE]

\* LoopLeaves without the break after accept_peer: the loop goes on to accept.
LoopLeavesNoBreak(event) ==
    event \in {"fatal"}

\* Whether the accept loop of gauth2.rs is left after the event: the break
\* after a fatal accept error and the break after accept_peer.
LoopLeaves(event) ==
    event \in {"fatal", "peer"}

\* HeldOnReturn with a listener that outlives recv_response.
HeldOnReturnKept(held) ==
    held

\* The ports recv_response still holds when it returns: the listener is a
\* local and is dropped on every return, on `?` and on an unwinding panic.
HeldOnReturn(held) ==
    {}

\* What listener.incoming() yields on a non-blocking listener.
AcceptStatus ==
    IF fault THEN "fatal" ELSE IF backlog > 0 THEN "conn" ELSE "wouldblock"

\* One iteration of `for status in listener.incoming()` in gauth2.rs.
Poll ==
    /\ revision = "gauth2"
    /\ pc = "wait"
    /\ LET status == AcceptStatus
       IN /\ accepted' = IF status = "conn" THEN accepted + 1 ELSE accepted
          /\ accept_failed' = (accept_failed \/ status = "fatal")
          /\ IF WaitBoundSecs <= elapsed
             THEN \* the wait is over: Err(...) whatever accept returned
                  /\ pc' = "done"
                  /\ outcome' = Failed("timeout", << >>)
                  /\ recv_result' = [kind |-> "err", code |-> << >>, state |-> << >>]
                  /\ conn' = IF status = "conn" THEN "closed" ELSE conn
                  /\ bound' = HeldOnReturn(bound)
                  /\ backlog' = 0
                  /\ fault' = FALSE
                  /\ UNCHANGED << elapsed, nb_stream >>
             ELSE IF status = "wouldblock"
             THEN \* sleep 100 ms and poll again
                  UNCHANGED << pc, outcome, recv_result, conn, bound, backlog, fault,
                               elapsed, nb_stream >>
             ELSE IF status = "fatal"
             THEN IF LoopLeaves("fatal")
                  THEN \* break: the extraction runs on the empty query
                       LET x == Extract(revision, EmptyMap)
                       IN /\ pc' = "exchange"
                          /\ outcome' = outcome
                          /\ recv_result' = [kind |-> "ok", code |-> x.code, state |-> x.state]
                          /\ bound' = HeldOnReturn(bound)
                          /\ backlog' = 0
                          /\ fault' = FALSE
                          /\ elapsed' = 0
                          /\ UNCHANGED << conn, nb_stream >>
                  ELSE /\ fault' = FALSE
                       /\ UNCHANGED << pc, outcome, recv_result, conn, bound, backlog,
                                       elapsed, nb_stream >>
             ELSE \* accept_peer(status.unwrap()) starts to read the stream
                  /\ pc' = "read"
                  /\ conn' = "open"
                  /\ backlog' = backlog - 1
                  /\ nb_stream' \in BOOLEAN
                  /\ elapsed' = 0
                  /\ UNCHANGED << outcome, recv_result, bound, fault >>
    /\ UNCHANGED << files, client_id, client_secret, probe, taken, browser_called, codec, random,
                    process, runs >>
    /\ UNCHANGED << connected, revision, port, state, code_verifier, inbox, responded, request,
                    posts, token_data >>

\* listener.accept()? in main.rs: blocks until a connection or an error.
AcceptBlocking ==
    /\ revision = "main"
    /\ pc = "wait"
    /\ fault \/ backlog > 0
    /\ IF fault
       THEN /\ pc' = "done"
            /\ outcome' = Failed("io", << >>)
            /\ recv_result' = [kind |-> "err", code |-> << >>, state |-> << >>]
            /\ accept_failed' = TRUE
            /\ bound' = HeldOnReturn(bound)
            /\ backlog' = 0
            /\ fault' = FALSE
            /\ UNCHANGED << accepted, conn >>
       ELSE /\ pc' = "read"
            /\ accepted' = accepted + 1
            /\ conn' = "open"
            /\ backlog' = backlog - 1
            /\ UNCHANGED << outcome, recv_result, accept_failed, bound, fault >>
    /\ elapsed' = 0
    /\ UNCHANGED << files, client_id, client_secret, probe, taken, browser_called, codec, random,
                    process, runs >>
    /\ UNCHANGED << connected, revision, port, state, code_verifier, nb_stream, inbox, responded,
                    request, posts, token_data >>

\* A read on a non-blocking accepted stream before the peer's bytes arrived:
\* the WouldBlock error is unwrapped.
ReadWouldBlock ==
    /\ pc = "read"
    /\ nb_stream
    /\ inbox = "none"
    /\ pc' = "done"
    /\ outcome' = Panicked("read")
    /\ conn' = "closed"
    /\ bound' = HeldOnReturn(bound)
    /\ backlog' = 0
    /\ UNCHANGED << files, client_id, client_secret, probe, taken, browser_called, codec, random,
                    process, runs >>
    /\ UNCHANGED << connected, revision, port, state, code_verifier, fault, elapsed, accepted,
                    accept_failed, nb_stream, inbox, responded, request, recv_result,
                    posts, token_data >>

\* accept_peer on the arrived bytes, then the rest of recv_response.
AcceptPeer ==
    /\ pc = "read"
    /\ inbox = "ready"
    /\ \E input \in PeerInputs(state), written \in BOOLEAN :
         LET r == accept_peer(revision, input, written)
             x == Extract(revision, r.map)
         IN /\ request' = input
            /\ responded' = r.responded
            /\ conn' = "closed"
            /\ inbox' = "none"
            /\ IF r.kind = "panic"
               THEN /\ pc' = "done"
                    /\ outcome' = Panicked(r.tag)
                    /\ recv_result' = recv_result
                    /\ bound' = HeldOnReturn(bound)
                    /\ backlog' = 0
               ELSE IF r.kind = "err"
               THEN /\ pc' = "done"
                    /\ outcome' = Failed(r.tag, << >>)
                    /\ recv_result' = [kind |-> "err", code |-> << >>, state |-> << >>]
                    /\ bound' = HeldOnReturn(bound)
                    /\ backlog' = 0
               ELSE IF revision = "gauth2" /\ ~LoopLeaves("peer")
               THEN /\ pc' = "wait"
                    /\ UNCHANGED << outcome, recv_result, bound, backlog >>
               ELSE IF x.kind = "err"
               THEN /\ pc' = "done"
                    /\ outcome' = Failed("denied", x.reason)
                    /\ recv_result' = [kind |-> "err", code |-> << >>, state |-> << >>]
                    /\ bound' = HeldOnReturn(bound)
                    /\ backlog' = 0
               ELSE /\ pc' = "exchange"
                    /\ outcome' = outcome
                    /\ recv_result' = [kind |-> "ok", code |-> x.code, state |-> x.state]
                    /\ bound' = HeldOnReturn(bound)
                    /\ backlog' = 0
    /\ nb_stream' = FALSE
    /\ UNCHANGED << files, client_id, client_secret, probe, taken, browser_called, codec, random,
                    process, runs >>
    /\ UNCHANGED << connected, revision, port, state, code_verifier, fault, elapsed, accepted,
                    accept_failed, posts, token_data >>

(***************************************************************************)
(* Token exchange and user info                                            *)
(***************************************************************************)

\* AfterExchangeError with a failed POST sent again.
AfterExchangeErrorRetried(kind) ==
    IF kind = "transport" THEN "exchange" ELSE "done"

\* Where the flow goes when exchange_code_to_tokens fails: the `?` of http_post
\* and of the decode return the error, and the `?` of the caller ends the run.
AfterExchangeError(kind) ==
    "done"

\* TokenDataOnError with the assignment done before the error is looked at.
TokenDataOnErrorStored(old, resp) ==
    "partial"

\* token_data when exchange_code_to_tokens failed: begin returns at the `?`,
\* before self.token_data is assigned.
TokenDataOnError(old, resp) ==
    old

\* ExchangeParams with the received state sent as the code_verifier.
ExchangeParamsVerifierFromState(id, secret, st, code, verifier, redirect_uri) ==
    [code |-> code, state |-> st, code_verifier |-> st, redirect_uri |-> redirect_uri,
     client_id |-> id, client_secret |-> secret]

\* The form parameters exchange_code_to_tokens posts, from its arguments (the
\* credentials are fields of self in gauth2.rs); scope is "" and grant_type is
\* authorization_code in every request.
ExchangeParams(id, secret, st, code, verifier, redirect_uri) ==
    [code |-> code, state |-> st, code_verifier |-> verifier, redirect_uri |-> redirect_uri,
     client_id |-> id, client_secret |-> secret]

\* exchange_code_to_tokens: one POST, then the JSON decode.  The state and the
\* code are the ones recv_response returned.
ExchangeCodeToTokens ==
    /\ pc = "exchange"
    /\ posts' = Append(posts, ExchangeParams(client_id, client_secret, recv_result.state,
                                             recv_result.code, code_verifier,
                                             RedirectUri(port)))
    /\ \E resp \in TokenResponses :
         IF resp.kind = "transport"
         THEN /\ pc' = AfterExchangeError("transport")
              /\ outcome' = IF pc' = "done" THEN Failed("transport", << >>) ELSE outcome
              /\ token_data' = TokenDataOnError(token_data, resp)
         ELSE IF resp.kind = "undecodable"
         THEN /\ pc' = AfterExchangeError("undecodable")
              /\ outcome' = IF pc' = "done" THEN Failed("decode", << >>) ELSE outcome
              /\ token_data' = TokenDataOnError(token_data, resp)
         ELSE /\ token_data' = resp.token
              /\ IF revision = "gauth2"
                 THEN /\ pc' = "done"
                      /\ outcome' = Succeeded
                 ELSE /\ pc' = "userinfo"
                      /\ outcome' = outcome
    /\ UNCHANGED << files, client_id, client_secret, probe, taken, browser_called, codec, random,
                    process, runs >>
    /\ UNCHANGED << connected, revision, port, state, code_verifier, bound, backlog, fault, elapsed,
                    accepted, accept_failed, conn, nb_stream, inbox, responded, request,
                    recv_result >>

\* query_user_info in main.rs: every failure is unwrapped.
QueryUserInfo ==
    /\ revision = "main"
    /\ pc = "userinfo"
    /\ \E answered \in BOOLEAN :
         outcome' = IF answered THEN Succeeded ELSE Panicked("userinfo")
    /\ pc' = "done"
    /\ UNCHANGED << files, client_id, client_secret, probe, taken, browser_called, codec, random,
                    process, runs >>
    /\ UNCHANGED << connected, revision, port, state, code_verifier, bound, backlog, fault, elapsed,
                    accepted, accept_failed, conn, nb_stream, inbox, responded, request,
                    recv_result, posts, token_data >>

(***************************************************************************)
(* The end of the process (main of main.rs)                                *)
(***************************************************************************)

\* ExitStatus of a main that ends every run with status 0.
ExitStatusAlwaysZero(kind) ==
    0

\* The exit status main gives the process: it returns after Ok (status 0),
\* calls std::process::exit(1) after Err, and a panic that unwinds out of main
\* ends the process with status 101.
ExitStatus(kind) ==
    IF kind = "ok" THEN 0 ELSE IF kind = "error" THEN 1 ELSE 101

\* Whether an error is written for the operator before the process ends:
\* error!("{}", err) after Err, the message of the panic hook after a panic.
ErrorReported(kind) ==
    kind \in {"error", "panic"}

\* The end of main once execute_oauth_example has returned or panicked.
ProcessExit ==
    /\ revision = "main"
    /\ pc = "done"
    /\ ~process.exited
    /\ process' = [exited |-> TRUE, status |-> ExitStatus(outcome.kind),
                   reported |-> ErrorReported(outcome.kind)]
    /\ UNCHANGED << files, client_id, client_secret, probe, taken, browser_called, codec, random,
                    runs >>
    /\ UNCHANGED << connected, revision, pc, port, state, code_verifier, bound, backlog, fault,
                    elapsed, accepted, accept_failed, conn, nb_stream, inbox, responded,
                    request, recv_result, posts, token_data, outcome >>

(***************************************************************************)
(* Environment                                                             *)
(***************************************************************************)

\* Another process binds the port select_random_tcp_port returned, after the
\* probe released it and before recv_response binds it.
OtherProcessBinds ==
    /\ pc \in {"generate", "open_browser", "bind"}
    /\ ~taken
    /\ taken' = TRUE
    /\ UNCHANGED << files, client_id, client_secret, probe, browser_called, codec, random,
                    process, runs >>
    /\ UNCHANGED << connected, revision, pc, port, state, code_verifier, bound, backlog, fault,
                    elapsed, accepted, accept_failed, conn, nb_stream, inbox, responded,
                    request, recv_result, posts, token_data, outcome >>

\* A peer completes a connection to the bound loopback port.
PeerConnect ==
    /\ pc \in {"wait", "read"}
    /\ bound # {}
    /\ connected < MaxPeers
    /\ connected' = connected + 1
    /\ backlog' = backlog + 1
    /\ UNCHANGED << files, client_id, client_secret, probe, taken, browser_called, codec, random,
                    process, runs >>
    /\ UNCHANGED << revision, pc, port, state, code_verifier, bound, fault, elapsed,
                    accepted, accept_failed, conn, nb_stream, inbox, responded, request,
                    recv_result, posts, token_data, outcome >>

\* The header block of the accepted peer (or its end of stream) arrives.
PeerSend ==
    /\ pc = "read"
    /\ inbox = "none"
    /\ inbox' = "ready"
    /\ UNCHANGED << files, client_id, client_secret, probe, taken, browser_called, codec, random,
                    process, runs >>
    /\ UNCHANGED << connected, revision, pc, port, state, code_verifier, bound, backlog, fault,
                    elapsed, accepted, accept_failed, conn, nb_stream, responded, request,
                    recv_result, posts, token_data, outcome >>

\* The listener gets an error other than would-block (for example no file
\* descriptor left, a connection aborted in the queue).
SocketFault ==
    /\ pc = "wait"
    /\ ~fault
    /\ ~accept_failed
    /\ fault' = TRUE
    /\ UNCHANGED << files, client_id, client_secret, probe, taken, browser_called, codec, random,
                    process, runs >>
    /\ UNCHANGED << connected, revision, pc, port, state, code_verifier, bound, backlog, elapsed,
                    accepted, accept_failed, conn, nb_stream, inbox, responded, request,
                    recv_result, posts, token_data, outcome >>

\* A second passes while the flow waits for a connection.
Tick ==
    /\ pc = "wait"
    /\ elapsed < WaitBoundSecs + MaxOverrun
    /\ elapsed' = elapsed + 1
    /\ UNCHANGED << files, client_id, client_secret, probe, taken, browser_called, codec, random,
                    process, runs >>
    /\ UNCHANGED << connected, revision, pc, port, state, code_verifier, bound, backlog, fault,
                    accepted, accept_failed, conn, nb_stream, inbox, responded, request,
                    recv_result, posts, token_data, outcome >>

Program ==
    \/ Configure
    \/ New
    \/ SelectPort
    \/ Generate
    \/ OpenBrowser
    \/ Bind
    \/ Poll
    \/ AcceptBlocking
    \/ ReadWouldBlock
    \/ AcceptPeer
    \/ ExchangeCodeToTokens
    \/ QueryUserInfo
    \/ ProcessExit

Environment ==
    \/ OtherProcessBinds
    \/ PeerConnect
    \/ PeerSend
    \/ SocketFault
    \/ Tick

Next ==
    Program \/ Environment

Spec ==
    Init /\ [][Next]_vars

\* The flow runs on its own thread: a step of the program that is possible is
\* taken, and time passes.  Nothing is assumed of peers or socket faults.
FairSpec ==
    Init /\ [][Next]_vars /\ WF_vars(Program) /\ WF_vars(Tick)

(***************************************************************************)
(* urlencode and urldecode on their own                                    *)
(***************************************************************************)

flow_vars ==
    << revision, pc, files, client_id, client_secret, probe, taken, browser_called, process,
       port, state, code_verifier, bound, connected, backlog, fault, elapsed, accepted, accept_failed,
       conn, nb_stream, inbox, responded, request, recv_result, posts, token_data, outcome >>

\* Letters, digits and punctuation the longer texts are made of.
CodecChars ==
    { "a", "Z", "0", "9", "%", "=", "&", "+", " ", "-", "_", "~", "/", "<96>" }

\* The texts converted: every printable ASCII character on its own, and the
\* texts of CodecChars up to CodecMaxLen characters.
CodecInputs ==
    { << AsciiTable[i] >> : i \in 1..Len(AsciiTable) }
        \cup UNION { [1..n -> CodecChars] : n \in 0..CodecMaxLen }

CodecInit ==
    /\ Idle("gauth2", << >>)
    /\ random = NoRandom
    /\ runs = NoRuns
    /\ \E s \in CodecInputs :
         codec = [stage |-> "input", input |-> s, encoded |-> << >>, decoded |-> << >>]

\* urlencode(s)
Encode ==
    /\ codec.stage = "input"
    /\ codec' = [codec EXCEPT !.stage = "encoded", !.encoded = urlencode(codec.input)]
    /\ UNCHANGED << flow_vars, random, runs >>

\* urldecode of what urlencode returned; a panic leaves no text.
Decode ==
    /\ codec.stage = "encoded"
    /\ LET r == urldecode(codec.encoded)
       IN codec' = [codec EXCEPT !.stage = IF r.panic THEN "panic" ELSE "decoded",
                                 !.decoded = r.text]
    /\ UNCHANGED << flow_vars, random, runs >>

CodecNext ==
    Encode \/ Decode

CodecSpec ==
    CodecInit /\ [][CodecNext]_vars

(***************************************************************************)
(* generate_random_string on its own                                       *)
(***************************************************************************)

\* The buffers of a length the random generator can yield that are followed:
\* every value of a byte at every position, the other bytes all 0 or all 255;
\* and every buffer over ByteSet.
RandomBuffers(length) ==
    { [i \in 1..length |-> IF i = k THEN b ELSE fill] :
          k \in 1..length, b \in 0..255, fill \in {0, 255} }
        \cup generate_random_u8_array(length)

RandomInit ==
    /\ Idle("gauth2", << >>)
    /\ codec = NoCodec
    /\ runs = NoRuns
    /\ \E size \in 0..RandMaxLen :
         random = [stage |-> "size", size |-> size, buffer |-> << >>, text |-> << >>]

\* let buffer = generate_random_u8_array(size)
DrawBuffer ==
    /\ random.stage = "size"
    /\ \E buffer \in RandomBuffers(random.size) :
         random' = [random EXCEPT !.stage = "buffer", !.buffer = buffer]
    /\ UNCHANGED << flow_vars, codec, runs >>

\* The rest of generate_random_string: encode_base64, then fix_base64_string.
EncodeBuffer ==
    /\ random.stage = "buffer"
    /\ random' = [random EXCEPT !.stage = "text",
                                !.text = generate_random_string(random.buffer)]
    /\ UNCHANGED << flow_vars, codec, runs >>

RandomNext ==
    DrawBuffer \/ EncodeBuffer

RandomSpec ==
    RandomInit /\ [][RandomNext]_vars

(***************************************************************************)
(* Two flows that run at the same time and share the loopback ports        *)
(***************************************************************************)

RunIds ==
    {1, 2}

\* The ports on which a flow other than r holds a listener.
HeldByOthers(r) ==
    UNION { runs[o].held : o \in RunIds \ {r} }

TwoRunInit ==
    /\ Idle("gauth2", << ValidFile >>)
    /\ codec = NoCodec
    /\ random = NoRandom
    /\ runs = [r \in RunIds |-> [pc |-> "probe", next |-> PortFirst, got |-> FALSE,
                                  port |-> 0, held |-> {}, result |-> "running"]]

\* try_bind_tcp_port: TcpListener::bind(&address) on the port under probe; the
\* bind fails when another flow holds a listener on the port.
RunTryBind(r) ==
    /\ runs[r].pc = "probe"
    /\ LET free == runs[r].next \notin HeldByOthers(r)
       IN runs' = [runs EXCEPT ![r].pc = "probed",
                               ![r].got = free,
                               ![r].held = IF free THEN {runs[r].next} ELSE {}]
    /\ UNCHANGED << flow_vars, codec, random >>

\* try_bind_tcp_port returns and the loop of select_random_tcp_port goes on:
\* the port is returned, or the next port is probed, or the range is used up.
RunProbeReturn(r) ==
    /\ runs[r].pc = "probed"
    /\ LET t == try_bind_tcp_port(runs[r].next, runs[r].got)
       IN IF t.ok
          THEN runs' = [runs EXCEPT ![r].pc = "open_browser", ![r].port = runs[r].next,
                                    ![r].held = t.held, ![r].got = FALSE]
          ELSE IF runs[r].next + 1 \in Ports
          THEN runs' = [runs EXCEPT ![r].pc = "probe", ![r].next = runs[r].next + 1,
                                    ![r].held = t.held, ![r].got = FALSE]
          ELSE runs' = [runs EXCEPT ![r].pc = "done", ![r].result = "no_port",
                                    ![r].held = t.held, ![r].got = FALSE]
    /\ UNCHANGED << flow_vars, codec, random >>

\* state, verifier and challenge are drawn and the browser is opened, or
\* open::that fails.
RunOpenBrowser(r) ==
    /\ runs[r].pc = "open_browser"
    /\ \E opened \in BOOLEAN :
         IF opened
         THEN runs' = [runs EXCEPT ![r].pc = "bind"]
         ELSE runs' = [runs EXCEPT ![r].pc = "done", ![r].result = "browser"]
    /\ UNCHANGED << flow_vars, codec, random >>

\* TcpListener::bind(&address)? at the head of recv_response.
RunBind(r) ==
    /\ runs[r].pc = "bind"
    /\ LET failed == runs[r].port \in HeldByOthers(r)
       IN IF BindReturns(failed)
          THEN runs' = [runs EXCEPT ![r].pc = "done", ![r].result = "bind"]
          ELSE runs' = [runs EXCEPT ![r].pc = "wait",
                                    ![r].held = IF failed THEN {} ELSE {runs[r].port}]
    /\ UNCHANGED << flow_vars, codec, random >>

\* recv_response returns and its listener is dropped.
RunReturn(r) ==
    /\ runs[r].pc = "wait"
    /\ runs' = [runs EXCEPT ![r].pc = "done", ![r].result = "returned",
                            ![r].held = HeldOnReturn(runs[r].held)]
    /\ UNCHANGED << flow_vars, codec, random >>

TwoRunNext ==
    \E r \in RunIds :
        \/ RunTryBind(r)
        \/ RunProbeReturn(r)
        \/ RunOpenBrowser(r)
        \/ RunBind(r)
        \/ RunReturn(r)

TwoRunSpec ==
    TwoRunInit /\ [][TwoRunNext]_vars

(***************************************************************************)
(* What the specification says of a callback request                       *)
(***************************************************************************)

\* The request line is METHOD SP PATH SP VERSION with method GET and a path
\* that holds a query string.
IsGetWithQuery(lines) ==
    /\ Len(lines) >= 1
    /\ LET items == Split(lines[1], " ")
       IN /\ Len(items) >= 2
          /\ items[1] = << "G", "E", "T" >>
          /\ Contains(items[2], "?")

\* The pairs of the query of the request line.
RequestLinePairs(lines) ==
    LET path == Split(lines[1], " ")[2]
    IN Split(SubSeq(path, IndexOf(path, "?") + 1, Len(path)), "&")

\* Key and raw value of a pair, split at its first "=".
PairKey(pair) ==
    IF Contains(pair, "=") THEN SubSeq(pair, 1, IndexOf(pair, "=") - 1) ELSE pair

PairValue(pair) ==
    IF Contains(pair, "=") THEN SubSeq(pair, IndexOf(pair, "=") + 1, Len(pair)) ELSE << >>

\* Index of the last pair with the key, 0 when there is none.
LastIndexOfKey(pairs, key) ==
    IF \E i \in 1..Len(pairs) : PairKey(pairs[i]) = key
    THEN CHOOSE i \in 1..Len(pairs) :
           /\ PairKey(pairs[i]) = key
           /\ \A j \in (i + 1)..Len(pairs) : PairKey(pairs[j]) # key
    ELSE 0

\* The request carries an error parameter with a non-empty value (the last
\* occurrence counts).
CarriesError(lines) ==
    /\ IsGetWithQuery(lines)
    /\ LastIndexOfKey(RequestLinePairs(lines), kError) # 0
    /\ PairValue(RequestLinePairs(lines)[LastIndexOfKey(RequestLinePairs(lines), kError)]) # << >>

ErrorValue(lines) ==
    PairValue(RequestLinePairs(lines)[LastIndexOfKey(RequestLinePairs(lines), kError)])

\* A request was read and recv_response returned its (code, state).
CallbackReturned ==
    request.kind = "lines" /\ recv_result.kind = "ok"

\* The run ended on an I/O failure of the accepted stream.
StreamIoFailed ==
    outcome.tag \in {"io", "write", "read"}

(***************************************************************************)
(* Claims                                                                  *)
(***************************************************************************)

\* C1: when the state received on the callback differs from the generated
\* state (or is absent), the run ends with a state-mismatch error and no
\* token-exchange request is sent.
C1_StateMismatchAborts ==
    (CallbackReturned /\ recv_result.state # state)
        => /\ posts = << >>
           /\ pc = "done" => outcome = Failed("state_mismatch", << >>)

\* C2: when the callback request carries an error parameter with a non-empty
\* value, the run ends with the authorization-denied error whose reason is that
\* value, and no token-exchange request is sent.
C2_ErrorParameterDenies ==
    (request.kind = "lines" /\ CarriesError(request.lines) /\ ~StreamIoFailed)
        => /\ outcome.kind = "error"
           /\ outcome.tag = "denied"
           /\ ~urldecode(ErrorValue(request.lines)).panic
           /\ outcome.text = urldecode(ErrorValue(request.lines)).text
           /\ posts = << >>

\* C3: when the callback yields an empty authorization code, the run fails
\* with a missing-code error and no token-exchange request is sent.
C3_EmptyCodeAborts ==
    (CallbackReturned /\ recv_result.code = << >>)
        => /\ posts = << >>
           /\ pc = "done" => outcome = Failed("missing_code", << >>)

\* C4: when no connection has arrived by the time the wait bound has elapsed,
\* the wait ends with the timeout error (a socket error aside); after a
\* timeout no token exchange follows and the port is unbound.
C4_TimeoutWhenNobodyConnects ==
    /\ [](outcome.tag = "timeout" => (posts = << >> /\ bound = {}))
    /\ (pc = "wait" /\ elapsed >= WaitBoundSecs /\ connected = 0)
           ~> (outcome = Failed("timeout", << >>) \/ accept_failed)

\* C5: every run of the flow ends, with a result or an error, whatever the
\* peer does.
C5_FlowTerminates ==
    <>(pc = "done")

\* C6: when accept reports an error other than would-block, the wait ends at
\* once with a failure: no (code, state) is returned and no token-exchange
\* request is sent.
C6_FatalAcceptFails ==
    accept_failed
        => /\ outcome.kind = "error"
           /\ recv_result.kind = "err"
           /\ posts = << >>

\* C7: a run accepts at most one connection, however many peers connect, and
\* once recv_response has returned the listener is closed.
C7_SingleUseListener ==
    /\ accepted <= 1
    /\ (recv_result.kind # "none" \/ pc = "done") => bound = {}

\* C7 witness: two peers connected, one was accepted, the run has ended.
C7_Witness ==
    /\ pc = "done"
    /\ connected >= 2
    /\ accepted = 1

\* C8: no terminal state of a run holds the loopback port, whatever the exit
\* path.
C8_PortReleasedOnEveryExit ==
    pc = "done" => bound = {}

\* C8 witness: a run that bound the port, accepted a peer and ended on a
\* failed token exchange.
C8_Witness ==
    /\ pc = "done"
    /\ accepted = 1
    /\ outcome.kind = "error"
    /\ outcome.tag \in {"transport", "decode"}
    /\ bound = {}

\* C9: every accepted connection is sent the 200 response before it is closed,
\* whatever the request holds and also when it is accepted as the wait bound
\* expires.
C9_EveryAcceptedPeerAnswered ==
    (conn = "closed" /\ ~StreamIoFailed) => responded

\* C10: parsing the callback request never aborts: diagnose_http_request
\* returns a mapping for every sequence of header lines, the empty mapping when
\* the request line is no GET with a query string.
C10_ParsingNeverAborts ==
    request.kind = "lines"
        => /\ ~diagnose_http_request(request.lines).panic
           /\ ~IsGetWithQuery(request.lines)
                 => diagnose_http_request(request.lines).map = EmptyMap

\* Every pair of the query of the request line has the form key=value.
AllPairsKeyed(lines) ==
    \A i \in 1..Len(RequestLinePairs(lines)) : Contains(RequestLinePairs(lines)[i], "=")

\* The keys of the query of the request line.
RequestLineKeys(lines) ==
    { PairKey(RequestLinePairs(lines)[i]) : i \in 1..Len(RequestLinePairs(lines)) }

\* The raw value of the last pair with the key: all the text after the first
\* "=" of that pair.
LastRawValue(lines, key) ==
    PairValue(RequestLinePairs(lines)[LastIndexOfKey(RequestLinePairs(lines), key)])

\* C11: for a request line GET /?k1=v1&...&kn=vn HTTP/1.1, parsing yields the
\* mapping whose keys are exactly k1..kn, undecoded, each mapped to the
\* percent-decoded value of its last occurrence.
C11_QueryMapping ==
    (request.kind = "lines" /\ IsGetWithQuery(request.lines) /\ AllPairsKeyed(request.lines))
        => LET q == diagnose_http_request(request.lines)
           IN /\ ~q.panic
              /\ DOMAIN q.map = RequestLineKeys(request.lines)
              /\ \A key \in RequestLineKeys(request.lines) :
                   /\ ~urldecode(LastRawValue(request.lines, key)).panic
                   /\ q.map[key] = urldecode(LastRawValue(request.lines, key)).text

\* C12: a pair is split only at its first "=": where parsing returns a
\* mapping, the value of a key is the decoding of all the text after the first
\* "=" of its last pair, a further "=" included.
C12_SplitAtFirstEquals ==
    (/\ request.kind = "lines"
     /\ IsGetWithQuery(request.lines)
     /\ AllPairsKeyed(request.lines)
     /\ ~diagnose_http_request(request.lines).panic)
        => \A key \in RequestLineKeys(request.lines) :
             /\ key \in DOMAIN diagnose_http_request(request.lines).map
             /\ ~urldecode(LastRawValue(request.lines, key)).panic
             /\ diagnose_http_request(request.lines).map[key]
                    = urldecode(LastRawValue(request.lines, key)).text

\* C13: for every text s of ASCII letters, digits and punctuation,
\* urldecode(urlencode(s)) returns s.
C13_CodecRoundTrip ==
    codec.stage \in {"decoded", "panic"}
        => /\ codec.stage = "decoded"
           /\ codec.decoded = codec.input

\* C13 witness: a text holding "%" and a space went through both conversions.
C13_Witness ==
    /\ codec.stage = "decoded"
    /\ Contains(codec.input, "%")
    /\ Contains(codec.input, " ")
    /\ codec.encoded # codec.input

\* The pairs of the query of a URL.
UrlPairs(url) ==
    Split(SubSeq(url, IndexOf(url, "?") + 1, Len(url)), "&")

\* The URL has exactly one query parameter of the name.
HasOneParam(url, name) ==
    Cardinality({ i \in 1..Len(UrlPairs(url)) : PairKey(UrlPairs(url)[i]) = name }) = 1

\* The value of the query parameter of the name.
UrlParam(url, name) ==
    PairValue(UrlPairs(url)[LastIndexOfKey(UrlPairs(url), name)])

\* C14: the authorization URL handed to the browser has response_type=code and
\* code_challenge_method=S256, and the values of scope, redirect_uri,
\* client_id, state and code_challenge are the percent-encodings of their
\* inputs (only letters and digits unescaped, the rest %XX in upper-case hex).
C14_AuthorizationUrlEncoded ==
    browser_url # << >>
        => /\ Contains(browser_url, "?")
           /\ \A name \in { kResponseType, kScope, kRedirectUri, kClientId, kState,
                            kCodeChallenge, kCodeChallengeMethod } :
                HasOneParam(browser_url, name)
           /\ UrlParam(browser_url, kResponseType) = << "c", "o", "d", "e" >>
           /\ UrlParam(browser_url, kCodeChallengeMethod) = << "S", "2", "5", "6" >>
           /\ UrlParam(browser_url, kScope) = urlencode(Scopes)
           /\ UrlParam(browser_url, kRedirectUri) = urlencode(RedirectUri(port))
           /\ UrlParam(browser_url, kState) = urlencode(state)
           /\ UrlParam(browser_url, kClientId) = urlencode(client_id)
           /\ UrlParam(browser_url, kCodeChallenge)
                  = urlencode(generate_code_challenge(code_verifier))

\* C15: select_random_tcp_port returns the lowest port of the range that could
\* be bound when it was probed, fails with the no-port error exactly when none
\* could, and holds no port when it has returned.
C15_LowestBindablePort ==
    /\ port # 0
         => /\ port \in Ports
            /\ probe[port]
            /\ \A q \in Ports : q < port => ~probe[q]
    /\ outcome.tag = "no_port"
         => /\ port = 0
            /\ \A q \in Ports : ~probe[q]
    /\ (\E q \in Ports : probe[q]) => port # 0
    /\ (pc \in {"generate", "open_browser", "bind"} \/ outcome.tag = "no_port") => bound = {}

\* C15 witness: the first port was busy and the second one was returned and
\* is not held.
C15_Witness ==
    /\ pc = "generate"
    /\ ~probe[PortFirst]
    /\ port = PortFirst + 1
    /\ bound = {}

\* C15 witness of the failure: no port could be bound.
C15_WitnessNoPort ==
    outcome = Failed("no_port", << >>)

\* C16: when another process has taken the reserved port before recv_response
\* binds it, the flow ends with the bind error: it never waits, reads a
\* callback or exchanges a token on that port.
C16_BindRaceSurfaces ==
    taken
        => /\ pc \in {"generate", "open_browser", "bind", "done"}
           /\ bound = {}
           /\ accepted = 0
           /\ recv_result = NoResult
           /\ posts = << >>
           /\ pc = "done"
                => \/ outcome = Failed("bind", << >>)
                   \/ outcome = Failed("browser", << >>)

\* C16 witness: the port was taken and the flow ended with the bind error.
C16_Witness ==
    /\ taken
    /\ browser_called
    /\ pc = "done"
    /\ outcome = Failed("bind", << >>)

\* C17: two flows that run at the same time always get different ports from
\* select_random_tcp_port, whatever the interleaving of their steps.
C17_DistinctReservations ==
    (runs # NoRuns /\ runs[1].port # 0 /\ runs[2].port # 0)
        => runs[1].port # runs[2].port

\* C17 as amended: the two flows may get the same port, but they never both
\* listen on it; a flow that listens holds its port alone, and the flow whose
\* bind met the listener of the other has ended with the bind error.
C17_NoSharedListener ==
    runs # NoRuns
        => /\ runs[1].held \cap runs[2].held = {}
           /\ \A r \in RunIds :
                /\ runs[r].pc = "wait" => runs[r].held = {runs[r].port}
                /\ runs[r].result = "bind"
                     => runs[r].pc = "done" /\ runs[r].held = {}
           /\ ~(/\ runs[1].pc = "wait"
                /\ runs[2].pc = "wait"
                /\ runs[1].port = runs[2].port)

\* C17 witness: both flows got the same port, one listens on it and the other
\* has ended with the bind error.
C17_Witness ==
    /\ runs # NoRuns
    /\ runs[1].port = runs[2].port
    /\ runs[1].pc = "wait"
    /\ runs[2].result = "bind"

\* C18: a run sends the token-exchange request at most once, and once a step
\* has failed no step follows: a transport failure or an undecodable response
\* ends the run without a second attempt.
C18_SingleExchangeNoRetry ==
    /\ [](Len(posts) <= 1)
    /\ [](outcome.tag \in {"transport", "decode"} => (pc = "done" /\ Len(posts) = 1))
    /\ [][outcome.kind \in {"error", "panic"}
            => UNCHANGED << pc, posts, port, bound, accepted, browser_called, token_data, outcome >>]_vars

\* C18 witness: the one token exchange failed in transport and the run ended.
C18_Witness ==
    /\ pc = "done"
    /\ outcome = Failed("transport", << >>)
    /\ Len(posts) = 1

\* The file holds no usable credentials: it does not parse, or its client_id
\* or client_secret is empty.
HoldsNoCredentials(file) ==
    ~file.parses \/ file.client_id = << >> \/ file.client_secret = << >>

\* A step of the protocol has been performed: a port probed or bound, the
\* browser opened, a token exchange sent.
ProtocolStepTaken ==
    \/ pc \in {"select_port", "generate", "open_browser", "bind", "wait", "read",
               "exchange", "userinfo"}
    \/ port # 0
    \/ \E p \in Ports : probe[p]
    \/ outcome.tag = "no_port"
    \/ browser_called
    \/ bound # {}
    \/ posts # << >>

\* C19: no protocol step is performed with an empty client_id or an empty
\* client_secret: when the files hold no usable credentials the run ends with
\* the configuration error before the first step.
C19_NoStepWithEmptyCredentials ==
    /\ ProtocolStepTaken => (client_id # << >> /\ client_secret # << >>)
    /\ \A i \in 1..Len(posts) :
         posts[i].client_id # << >> /\ posts[i].client_secret # << >>
    /\ (pc # "configure" /\ \A i \in 1..Len(files) : HoldsNoCredentials(files[i]))
         => /\ pc = "done"
            /\ outcome = Failed("config", << >>)
            /\ ~ProtocolStepTaken

\* C19 witness: the one file found has an empty client_id and the run ended
\* with the configuration error.
C19_Witness ==
    /\ files = << EmptyIdFile >>
    /\ pc = "done"
    /\ outcome = Failed("config", << >>)

\* C19 witness of a run with credentials: the file with the empty client_id
\* was passed over and the token exchange was sent with those of the next.
C19_WitnessSkipped ==
    /\ files = << EmptyIdFile, ValidFile >>
    /\ Len(posts) = 1
    /\ posts[1].client_id = ValidFile.client_id

\* C20: there is no partial success: when the run ends with an error the
\* stored token data are what they were before it (the empty ones of new), and
\* they are replaced only by the token a successful token exchange of the run
\* decoded, with which begin returns Ok.
C20_NoPartialSuccess ==
    /\ outcome.kind = "error" => token_data = ""
    /\ token_data # ""
         => /\ Len(posts) = 1
            /\ \E resp \in TokenResponses : resp.kind = "token" /\ token_data = resp.token
            /\ revision = "gauth2" => (pc = "done" /\ outcome = Succeeded)
    /\ outcome = Succeeded => token_data # ""

\* C20 witness: begin sent the token exchange, the response did not decode,
\* and the run ended with the error.
C20_Witness ==
    /\ revision = "gauth2"
    /\ pc = "done"
    /\ Len(posts) = 1
    /\ outcome = Failed("decode", << >>)
    /\ token_data = ""

\* A character of [A-Za-z0-9-_].
IsUrlSafeChar(c) ==
    IsAsciiAlphanumeric(c) \/ c = "-" \/ c = "_"

\* C21: for every byte count and every buffer of that many random bytes,
\* generate_random_string returns a text whose characters are all letters,
\* digits, "-" or "_": no "=", "+" or "/".
C21_RandomStringUrlSafe ==
    random.stage = "text"
        => /\ \A i \in 1..Len(random.text) : IsUrlSafeChar(random.text[i])
           /\ ~Contains(random.text, "=")
           /\ ~Contains(random.text, "+")
           /\ ~Contains(random.text, "/")

\* C21 witness: two bytes whose base64 text holds "/" and one "=" gave a text
\* of three characters with "_".
C21_Witness ==
    /\ random.stage = "text"
    /\ Len(random.buffer) = 2
    /\ Contains(encode_base64(random.buffer), "/")
    /\ Contains(encode_base64(random.buffer), "=")
    /\ Len(random.text) = 3
    /\ Contains(random.text, "_")

\* C22: the process ends with status 0 exactly when the flow succeeded; after
\* every failure of the flow it ends with a status other than 0, and the error
\* was reported to the operator before.
C22_ExitStatusTellsResult ==
    process.exited
        => /\ pc = "done"
           /\ outcome.kind \in {"ok", "error", "panic"}
           /\ process.status = 0 <=> outcome.kind = "ok"
           /\ outcome.kind # "ok" => (process.status # 0 /\ process.reported)

\* C22 witness: the token exchange failed and the process ended with status 1
\* after the error was reported.
C22_Witness ==
    /\ process.exited
    /\ outcome = Failed("transport", << >>)
    /\ process.status = 1
    /\ process.reported

\* C22 witness of a success: the user info was answered and the process ended
\* with status 0.
C22_WitnessSuccess ==
    /\ process.exited
    /\ outcome = Succeeded
    /\ process.status = 0

\* The user-info query has been sent in this run.
UserInfoQueried ==
    \/ outcome.tag = "userinfo"
    \/ revision = "main" /\ outcome.kind = "ok"

\* C23: the steps of a run happen in one order and do not overlap: port
\* reservation, browser, bind and listen, callback, token exchange, user-info
\* query.  No token exchange is sent before a callback was received in the
\* run, and no user-info query before a successful token exchange.
C23_StepsInOrder ==
    /\ browser_called => (port # 0 /\ state # << >> /\ code_verifier # << >>)
    /\ pc \in {"configure", "new", "select_port", "generate", "open_browser"}
         => (bound = {} /\ connected = 0 /\ accepted = 0 /\ posts = << >>)
    /\ bound # {} => (browser_called /\ pc \in {"wait", "read"} /\ posts = << >>)
    /\ (accepted > 0 \/ request # NoRequest \/ recv_result # NoResult)
         => (browser_called /\ pc \notin {"bind"})
    /\ pc \in {"exchange", "userinfo"} => (bound = {} /\ conn # "open")
    /\ (pc = "exchange" \/ posts # << >>)
         => (accepted >= 1 /\ request.kind = "lines" /\ recv_result.kind = "ok")
    /\ (pc = "userinfo" \/ UserInfoQueried)
         => (Len(posts) = 1 /\ token_data # "")

\* C24: in one run the code_challenge of the authorization URL is derived from
\* the code_verifier sent in the token exchange, the redirect_uri of the token
\* exchange is the one of the authorization URL, and its port is the port the
\* listener binds; the verifier and the port, and so the redirect_uri, do not
\* change once they are made.
C24_ValuesBoundTogether ==
    /\ [](pc = "bind"
            => LET url == browser_url
               IN /\ UrlParam(url, kCodeChallenge) = generate_code_challenge(code_verifier)
                  /\ ~urldecode(UrlParam(url, kRedirectUri)).panic
                  /\ urldecode(UrlParam(url, kRedirectUri)).text = RedirectUri(port))
    /\ [](\A i \in 1..Len(posts) :
            /\ browser_called
            /\ posts[i].code_verifier = code_verifier
            /\ posts[i].redirect_uri = RedirectUri(port))
    /\ [](bound \subseteq {port})
    /\ [][code_verifier # << >> => UNCHANGED << port, code_verifier >>]_vars

\* C24 witness: the token exchange was sent after the listener had held the
\* second port of the range and a peer had been accepted on it.
C24_Witness ==
    /\ Len(posts) = 1
    /\ accepted = 1
    /\ port = PortFirst + 1
    /\ posts[1].redirect_uri = RedirectUri(PortFirst + 1)
    /\ posts[1].code_verifier # posts[1].state

\* C25: when opening the browser fails the flow ends with that error: the
\* loopback listener is never bound, no peer is accepted and no token exchange
\* is sent in that run.
C25_BrowserFailureEndsFlow ==
    /\ [](pc = "open_browser" => (bound = {} /\ posts = << >>))
    /\ [](outcome.tag = "browser"
            => /\ pc = "done"
               /\ outcome = Failed("browser", << >>)
               /\ bound = {}
               /\ connected = 0
               /\ accepted = 0
               /\ recv_result = NoResult
               /\ posts = << >>
               /\ token_data = "")
    /\ [][outcome.tag = "browser"
            => UNCHANGED << pc, bound, connected, accepted, posts, token_data, outcome >>]_vars

\* C25 witness: the URL was handed to open::that, which failed, and the run
\* has ended.
C25_Witness ==
    /\ browser_called
    /\ pc = "done"
    /\ outcome = Failed("browser", << >>)
    /\ port # 0

\* C26: the callback parameters are taken from the request line only: parsing
\* the header block gives what parsing its first line alone gives, and the
\* empty mapping when the first line is no GET with a query string, whatever a
\* later line holds.
C26_OnlyRequestLineParsed ==
    (request.kind = "lines" /\ Len(request.lines) >= 1)
        => /\ diagnose_http_request(request.lines)
                  = diagnose_http_request(<< request.lines[1] >>)
           /\ ~IsGetWithQuery(request.lines)
                 => diagnose_http_request(request.lines) = [panic |-> FALSE, map |-> EmptyMap]

\* C27: recv_response returns the timeout error only when it has accepted no
\* connection: a connection accept has returned is read and answered, not
\* dropped by the check of the 120 seconds in the same iteration.
C27_TimeoutOnlyWithoutConnection ==
    outcome.tag = "timeout"
        => /\ accepted = 0
           /\ conn = "none"


=============================================================================
